---- MODULE Spec2Model ----
(***************************************************************************)
(* DummyBTreeSet<K, B> (src/src/btree/dummy.rs) run side by side with the  *)
(* oracle ReferenceBTreeSet<K> (src/src/btree/reference.rs) through the    *)
(* BTreeSet trait (src/src/lib.rs).                                        *)
(*                                                                         *)
(* A Node is a record [is_leaf, keys, children]; keys and children are     *)
(* sequences (VecDeque).  Rust indices are 0-based: the helpers At,        *)
(* InsertAt and SplitOff take 0-based indices like the VecDeque methods.   *)
(* Option<T> is a sequence of length 0 (None) or 1 (Some).                 *)
(***************************************************************************)
EXTENDS Integers, Sequences, FiniteSets, TLC

\* Largest minimum degree B the model instantiates DummyBTreeSet<K, B> with.
MaxB == 3
\* Keys are drawn from 1..MaxKey.
MaxKey == 9

Degrees == 2..MaxB
KeySpace == 1..MaxKey

VARIABLES
    B,          \* the const generic parameter of DummyBTreeSet<K, B>
    root,       \* DummyBTreeSet::root : Option<Root<K, B>>
    oracle,     \* ReferenceBTreeSet.0 : the std BTreeSet, as a set of keys
    lastOp,     \* the last call on the DummyBTreeSet and what it returned
    refOp,      \* what the same call returned on the ReferenceBTreeSet
    inserted,   \* history: the keys whose insert returned Ok(())
    lastInsert  \* history: what Node::insert reported to the root in the last
                \* insert, and the splits and absorptions it went through

vars == <<B, root, oracle, lastOp, refOp, inserted, lastInsert>>

None == <<>>
Some(x) == <<x>>

(***************************************************************************)
(* VecDeque helpers, 0-based like the Rust methods.                        *)
(***************************************************************************)
Min(a, b) == IF a <= b THEN a ELSE b

\* s[i]
At(s, i) == s[i + 1]

\* VecDeque::insert(idx, x): x ends up at index idx.
InsertAt(s, idx, x) == SubSeq(s, 1, idx) \o <<x>> \o SubSeq(s, idx + 1, Len(s))

\* VecDeque::split_off(at): <<what stays (indices < at), what is returned>>.
SplitOff(s, at) == <<SubSeq(s, 1, at), SubSeq(s, at + 1, Len(s))>>

\* Iterator::take(n) followed by extend into an empty VecDeque.
Take(s, n) == SubSeq(s, 1, Min(n, Len(s)))

(***************************************************************************)
(* Node constants and constructors.                                        *)
(***************************************************************************)
MIN_KEYS == B - 1
\* Faulty variant of MAX_KEYS (off by one: 2B), for C9.
MaxKeysOffByOne == 2 * B
MAX_KEYS == 2 * B - 1
MIN_CHILDREN == 2 * B
\* Faulty variant of MAX_CHILDREN (one child fewer is taken), for C21.
MaxChildrenBMinusOne == B - 1

MAX_CHILDREN == B

NodeDefault == [is_leaf |-> FALSE, keys |-> <<>>, children |-> <<>>]

NodeIntermediate(keys_iter, children_iter) ==
    [is_leaf  |-> FALSE,
     keys     |-> Take(keys_iter, MAX_KEYS),
     children |-> Take(children_iter, MAX_CHILDREN)]

\* Faulty variant of NodeLeaf (take(MIN_KEYS) for take(MAX_KEYS)), for C1.
NodeLeafMinKeys(keys_iter) ==
    [is_leaf  |-> TRUE,
     keys     |-> Take(keys_iter, MIN_KEYS),
     children |-> <<>>]

NodeLeaf(keys_iter) ==
    [is_leaf  |-> TRUE,
     keys     |-> Take(keys_iter, MAX_KEYS),
     children |-> <<>>]

\* Box::new(self): a Link owns its node.
Link(node) == node

(***************************************************************************)
(* VecDeque::binary_search: Ok(idx) on a hit, Err(insertion index) on a    *)
(* miss, by halving [left, right).                                         *)
(***************************************************************************)
RECURSIVE BinarySearchIn(_, _, _, _)
BinarySearchIn(keys, key, left, right) ==
    IF left >= right
    THEN [ok |-> FALSE, idx |-> left]
    ELSE LET mid == left + ((right - left) \div 2)
         IN  IF At(keys, mid) < key THEN BinarySearchIn(keys, key, mid + 1, right)
             ELSE IF At(keys, mid) > key THEN BinarySearchIn(keys, key, left, mid)
             ELSE [ok |-> TRUE, idx |-> mid]

\* Faulty variant of BinarySearch (the last index is never probed), for C3.
BinarySearchSkipLast(keys, key) == BinarySearchIn(keys, key, 0, Len(keys) - 1)

BinarySearch(keys, key) == BinarySearchIn(keys, key, 0, Len(keys))

(***************************************************************************)
(* Node::find and Root::search.                                            *)
(***************************************************************************)
\* Faulty variant of Find (the is_leaf test is inverted: a miss in a leaf
\* indexes children, a miss in an intermediate node reports NotFound), for
\* C11.
FindLeafTestInverted(node, key) ==
    LET bs == BinarySearch(node.keys, key)
    IN  IF bs.ok THEN [kind |-> "Key", key |-> At(node.keys, bs.idx)]
        ELSE IF ~node.is_leaf THEN [kind |-> "NotFound"]
        ELSE IF bs.idx >= Len(node.children) THEN [kind |-> "Panic"]
        ELSE [kind |-> "Child", child |-> At(node.children, bs.idx)]

Find(node, key) ==
    LET bs == BinarySearch(node.keys, key)
    IN  IF bs.ok THEN [kind |-> "Key", key |-> At(node.keys, bs.idx)]
        ELSE IF node.is_leaf THEN [kind |-> "NotFound"]
        ELSE IF bs.idx >= Len(node.children) THEN [kind |-> "Panic"]
        ELSE [kind |-> "Child", child |-> At(node.children, bs.idx)]

RECURSIVE SearchFrom(_, _)
SearchFrom(node, key) ==
    LET f == Find(node, key)
    IN  CASE f.kind = "NotFound" -> [res |-> "KeyNotFound", val |-> 0]
          [] f.kind = "Key"      -> [res |-> "Ok", val |-> f.key]
          [] f.kind = "Panic"    -> [res |-> "Panic", val |-> 0]
          [] f.kind = "Child"    -> SearchFrom(f.child, key)

RootSearch(r, key) == SearchFrom(r.node, key)

(***************************************************************************)
(* Node::split.  split_off(B) panics when B > len; pop_back().unwrap()     *)
(* panics on an empty deque.                                               *)
(***************************************************************************)
\* Node::split with the two split_off indices as parameters: the body of
\* the faulty variants of Split that differ from it in an index only.
SplitWith(node, keys_at, children_at) ==
    IF keys_at > Len(node.keys) \/ keys_at = 0
       \/ (~node.is_leaf /\ children_at > Len(node.children))
    THEN [panic |-> TRUE, node |-> node, hoist |-> 0, sibling |-> NodeDefault]
    ELSE LET ks    == SplitOff(node.keys, keys_at)
             hoist == At(ks[1], Len(ks[1]) - 1)
             left  == SubSeq(ks[1], 1, Len(ks[1]) - 1)
         IN  IF node.is_leaf
             THEN [panic   |-> FALSE,
                   node    |-> [node EXCEPT !.keys = left],
                   hoist   |-> hoist,
                   sibling |-> NodeLeaf(ks[2])]
             ELSE LET cs == SplitOff(node.children, children_at)
                  IN  [panic   |-> FALSE,
                       node    |-> [node EXCEPT !.keys = left, !.children = cs[1]],
                       hoist   |-> hoist,
                       sibling |-> NodeIntermediate(ks[2], cs[2])]

\* Faulty variant of Split (keys.split_off(B + 1) for split_off(B): the key
\* at index B is hoisted), for C12.
SplitKeysAtBPlusOne(node) == SplitWith(node, B + 1, B)

\* Faulty variant of Split (keys.split_off(B - 1) for split_off(B)), for C14.
SplitKeysAtBMinusOne(node) == SplitWith(node, B - 1, B)

\* Faulty variant of Split (the intermediate arm copies the leaf arm: the
\* sibling is built by Node::leaf and the split-off children are dropped),
\* for C8.
SplitSiblingLeaf(node) ==
    IF B > Len(node.keys) \/ B = 0 \/ (~node.is_leaf /\ B > Len(node.children))
    THEN [panic |-> TRUE, node |-> node, hoist |-> 0, sibling |-> NodeDefault]
    ELSE LET ks    == SplitOff(node.keys, B)
             hoist == At(ks[1], Len(ks[1]) - 1)
             left  == SubSeq(ks[1], 1, Len(ks[1]) - 1)
         IN  IF node.is_leaf
             THEN [panic   |-> FALSE,
                   node    |-> [node EXCEPT !.keys = left],
                   hoist   |-> hoist,
                   sibling |-> NodeLeaf(ks[2])]
             ELSE LET cs == SplitOff(node.children, B)
                  IN  [panic   |-> FALSE,
                       node    |-> [node EXCEPT !.keys = left, !.children = cs[1]],
                       hoist   |-> hoist,
                       sibling |-> NodeLeaf(ks[2])]

\* Faulty variant of Split (children.split_off(B + 1) for split_off(B)),
\* for C10.
SplitChildrenAtBPlusOne(node) ==
    IF B > Len(node.keys) \/ B = 0 \/ (~node.is_leaf /\ B + 1 > Len(node.children))
    THEN [panic |-> TRUE, node |-> node, hoist |-> 0, sibling |-> NodeDefault]
    ELSE LET ks    == SplitOff(node.keys, B)
             hoist == At(ks[1], Len(ks[1]) - 1)
             left  == SubSeq(ks[1], 1, Len(ks[1]) - 1)
         IN  IF node.is_leaf
             THEN [panic   |-> FALSE,
                   node    |-> [node EXCEPT !.keys = left],
                   hoist   |-> hoist,
                   sibling |-> NodeLeaf(ks[2])]
             ELSE LET cs == SplitOff(node.children, B + 1)
                  IN  [panic   |-> FALSE,
                       node    |-> [node EXCEPT !.keys = left, !.children = cs[1]],
                       hoist   |-> hoist,
                       sibling |-> NodeIntermediate(ks[2], cs[2])]

Split(node) ==
    IF B > Len(node.keys) \/ B = 0 \/ (~node.is_leaf /\ B > Len(node.children))
    THEN [panic |-> TRUE, node |-> node, hoist |-> 0, sibling |-> NodeDefault]
    ELSE LET ks    == SplitOff(node.keys, B)
             hoist == At(ks[1], Len(ks[1]) - 1)
             left  == SubSeq(ks[1], 1, Len(ks[1]) - 1)
         IN  IF node.is_leaf
             THEN [panic   |-> FALSE,
                   node    |-> [node EXCEPT !.keys = left],
                   hoist   |-> hoist,
                   sibling |-> NodeLeaf(ks[2])]
             ELSE LET cs == SplitOff(node.children, B)
                  IN  [panic   |-> FALSE,
                       node    |-> [node EXCEPT !.keys = left, !.children = cs[1]],
                       hoist   |-> hoist,
                       sibling |-> NodeIntermediate(ks[2], cs[2])]

(***************************************************************************)
(* Node::insert: the InsertResult together with the node as the call       *)
(* leaves it.                                                              *)
(***************************************************************************)
\* Every result carries, besides what the code returns, the trace of the
\* splits and absorptions made below and at the node, in the order made.
\* A "split" entry: before is the node when split() is entered, left the
\* node when it returns.  An "absorb" entry: before is the node when its
\* child reports Split, left the node with hoist and sibling inserted, res
\* what the node then reports.
SplitEntry(node, s) ==
    [kind |-> "split", res |-> "Split", before |-> node, left |-> s.node,
     hoist |-> s.hoist, sibling |-> s.sibling]

\* What Node::insert makes of split()'s return value s.
SplitResultOf(node, s) ==
    IF s.panic
    THEN [res |-> "Panic", node |-> node, hoist |-> 0, sibling |-> NodeDefault,
          trace |-> <<>>]
    ELSE [res |-> "Split", node |-> s.node, hoist |-> s.hoist, sibling |-> s.sibling,
          trace |-> <<SplitEntry(node, s)>>]

SplitResult(node) == SplitResultOf(node, Split(node))

AbsorbEntry(node, n1, hoist, sibling, res) ==
    [kind |-> "absorb", res |-> res, before |-> node, left |-> n1,
     hoist |-> hoist, sibling |-> sibling]

\* Faulty variant of LeafInsert (>= for > in the keys.len() test: a leaf
\* splits on reaching MAX_KEYS keys), for C16.
LeafInsertSplitsWhenFull(node, idx, key) ==
    LET n1 == [node EXCEPT !.keys = InsertAt(node.keys, idx, key)]
    IN  IF Len(n1.keys) >= MAX_KEYS
        THEN SplitResult(n1)
        ELSE [res |-> "Inserted", node |-> n1, hoist |-> 0, sibling |-> NodeDefault,
              trace |-> <<>>]

\* The leaf arm of Node::insert (lines 130-138): the key goes in at idx.
LeafInsert(node, idx, key) ==
    LET n1 == [node EXCEPT !.keys = InsertAt(node.keys, idx, key)]
    IN  IF Len(n1.keys) > MAX_KEYS
        THEN SplitResult(n1)
        ELSE [res |-> "Inserted", node |-> n1, hoist |-> 0, sibling |-> NodeDefault,
              trace |-> <<>>]

\* The Split arm of Node::insert (lines 143-153): children[idx] has split
\* into itself and sibling, with hoist between them.
\* Faulty variant of AbsorbSplit (children.insert(idx, ..) for
\* children.insert(idx + 1, ..): the sibling lands left of the node it was
\* split from), for C7.
AbsorbSplitSiblingFirst(node, idx, hoist, sibling) ==
    LET n1 == [node EXCEPT
                 !.keys = InsertAt(node.keys, idx, hoist),
                 !.children = InsertAt(node.children, idx, Link(sibling))]
    IN  IF Len(n1.children) > 2 * B - 1
        THEN LET sr == SplitResult(n1)
             IN  [sr EXCEPT !.trace =
                     <<AbsorbEntry(node, n1, hoist, sibling, sr.res)>> \o sr.trace]
        ELSE [res |-> "Inserted", node |-> n1, hoist |-> 0, sibling |-> NodeDefault,
              trace |-> <<AbsorbEntry(node, n1, hoist, sibling, "Inserted")>>]

\* Faulty variant of AbsorbSplit (>= for > in the children.len() test),
\* for C13.
AbsorbSplitAtFullChildren(node, idx, hoist, sibling) ==
    LET n1 == [node EXCEPT
                 !.keys = InsertAt(node.keys, idx, hoist),
                 !.children = InsertAt(node.children, idx + 1, Link(sibling))]
    IN  IF Len(n1.children) >= 2 * B - 1
        THEN LET sr == SplitResult(n1)
             IN  [sr EXCEPT !.trace =
                     <<AbsorbEntry(node, n1, hoist, sibling, sr.res)>> \o sr.trace]
        ELSE [res |-> "Inserted", node |-> n1, hoist |-> 0, sibling |-> NodeDefault,
              trace |-> <<AbsorbEntry(node, n1, hoist, sibling, "Inserted")>>]

\* Faulty variant of AbsorbSplit (the children.insert line is missing),
\* for C19.
AbsorbSplitDropsSibling(node, idx, hoist, sibling) ==
    LET n1 == [node EXCEPT
                 !.keys = InsertAt(node.keys, idx, hoist),
                 !.children = node.children]
    IN  IF Len(n1.children) > 2 * B - 1
        THEN LET sr == SplitResult(n1)
             IN  [sr EXCEPT !.trace =
                     <<AbsorbEntry(node, n1, hoist, sibling, sr.res)>> \o sr.trace]
        ELSE [res |-> "Inserted", node |-> n1, hoist |-> 0, sibling |-> NodeDefault,
              trace |-> <<AbsorbEntry(node, n1, hoist, sibling, "Inserted")>>]

\* Faulty variant of AbsorbSplit (keys.len() > MAX_KEYS for
\* children.len() > 2 * B - 1, the test of the leaf arm), for C20.
AbsorbSplitOnKeyOverflow(node, idx, hoist, sibling) ==
    LET n1 == [node EXCEPT
                 !.keys = InsertAt(node.keys, idx, hoist),
                 !.children = InsertAt(node.children, idx + 1, Link(sibling))]
    IN  IF Len(n1.keys) > MAX_KEYS
        THEN LET sr == SplitResult(n1)
             IN  [sr EXCEPT !.trace =
                     <<AbsorbEntry(node, n1, hoist, sibling, sr.res)>> \o sr.trace]
        ELSE [res |-> "Inserted", node |-> n1, hoist |-> 0, sibling |-> NodeDefault,
              trace |-> <<AbsorbEntry(node, n1, hoist, sibling, "Inserted")>>]

\* The node's own split after absorbing: sr is what the split reports.
AbsorbedThenSplit(node, n1, hoist, sibling, sr) ==
    [sr EXCEPT !.trace = <<AbsorbEntry(node, n1, hoist, sibling, sr.res)>> \o sr.trace]

AbsorbSplit(node, idx, hoist, sibling) ==
    LET n1 == [node EXCEPT
                 !.keys = InsertAt(node.keys, idx, hoist),
                 !.children = InsertAt(node.children, idx + 1, Link(sibling))]
    IN  IF Len(n1.children) > 2 * B - 1
        THEN AbsorbedThenSplit(node, n1, hoist, sibling, SplitResult(n1))
        ELSE [res |-> "Inserted", node |-> n1, hoist |-> 0, sibling |-> NodeDefault,
              trace |-> <<AbsorbEntry(node, n1, hoist, sibling, "Inserted")>>]

\* The trace of the levels below, then the node's own.
AfterChildTrace(child_trace, a) == [a EXCEPT !.trace = child_trace \o a.trace]

\* The intermediate arm of Node::insert once children[idx].insert(key) has
\* returned r (lines 142-155).
ChildInserted(node, idx, r) ==
    LET n0 == [node EXCEPT !.children[idx + 1] = r.node]
    IN  IF r.res = "Split"
        THEN AfterChildTrace(r.trace, AbsorbSplit(n0, idx, r.hoist, r.sibling))
        ELSE [res |-> r.res, node |-> n0, hoist |-> 0, sibling |-> NodeDefault,
              trace |-> r.trace]

RECURSIVE NodeInsert(_, _)
NodeInsert(node, key) ==
    LET bs  == BinarySearch(node.keys, key)
        idx == bs.idx
    IN  IF bs.ok
        THEN [res |-> "AlreadyExists", node |-> node, hoist |-> 0, sibling |-> NodeDefault,
              trace |-> <<>>]
        ELSE IF node.is_leaf
        THEN LeafInsert(node, idx, key)
        ELSE IF idx >= Len(node.children)
        THEN [res |-> "Panic", node |-> node, hoist |-> 0, sibling |-> NodeDefault,
              trace |-> <<>>]
        ELSE ChildInserted(node, idx, NodeInsert(At(node.children, idx), key))

(***************************************************************************)
(* Root::insert and Root::remove.                                          *)
(***************************************************************************)
\* Faulty variant of RootInsert (the new root lists the sibling before the
\* old root), for C15.
RootInsertSiblingFirst(r, key) ==
    LET ir == NodeInsert(r.node, key)
    IN  CASE ir.res = "AlreadyExists" ->
               [res |-> "KeyAlreadyExists", root |-> [node |-> ir.node], ir |-> ir]
          [] ir.res = "Inserted" ->
               [res |-> "Ok", root |-> [node |-> ir.node], ir |-> ir]
          [] ir.res = "Split" ->
               [res  |-> "Ok",
                root |-> [node |-> NodeIntermediate(<<ir.hoist>>,
                                       <<Link(ir.sibling), Link(ir.node)>>)],
                ir   |-> ir]
          [] ir.res = "Panic" ->
               [res |-> "Panic", root |-> [node |-> ir.node], ir |-> ir]

\* The match of Root::insert on what self.node.insert(key) returned.
RootInsertMatch(ir) ==
    CASE ir.res = "AlreadyExists" ->
           [res |-> "KeyAlreadyExists", root |-> [node |-> ir.node], ir |-> ir]
      [] ir.res = "Inserted" ->
           [res |-> "Ok", root |-> [node |-> ir.node], ir |-> ir]
      [] ir.res = "Split" ->
           [res  |-> "Ok",
            root |-> [node |-> NodeIntermediate(<<ir.hoist>>,
                                   <<Link(ir.node), Link(ir.sibling)>>)],
            ir   |-> ir]
      [] ir.res = "Panic" ->
           [res |-> "Panic", root |-> [node |-> ir.node], ir |-> ir]

RootInsert(r, key) == RootInsertMatch(NodeInsert(r.node, key))

\* todo!(): the call panics before it touches the node.
RootRemove(r, key) == [res |-> "Panic", val |-> 0, root |-> r]

(***************************************************************************)
(* impl BTreeSet for DummyBTreeSet.                                        *)
(***************************************************************************)
DummySearch(t, key) ==
    IF t = None THEN [res |-> "KeyNotFound", val |-> 0]
    ELSE RootSearch(t[1], key)

\* lastInsert when Node::insert was not called: no insert yet, another
\* operation, or an insert that found no root.
NoNodeInsert ==
    [res |-> "None", node |-> NodeDefault, hoist |-> 0, sibling |-> NodeDefault,
     trace |-> <<>>]

\* Faulty variant of DummyInsert (the first root is built by
\* Node::intermediate([key], []) for Node::leaf([key])), for C17.
DummyInsertIntermediateRoot(t, key) ==
    IF t # None
    THEN LET ri == RootInsert(t[1], key)
         IN  [res |-> ri.res, tree |-> Some(ri.root), ir |-> ri.ir]
    ELSE [res |-> "Ok", tree |-> Some([node |-> NodeIntermediate(<<key>>, <<>>)]),
          ir |-> NoNodeInsert]

\* root.insert(key) returned ri; the root stays in its Some.
RootInserted(ri) == [res |-> ri.res, tree |-> Some(ri.root), ir |-> ri.ir]

DummyInsert(t, key) ==
    IF t # None
    THEN RootInserted(RootInsert(t[1], key))
    ELSE [res |-> "Ok", tree |-> Some([node |-> NodeLeaf(<<key>>)]), ir |-> NoNodeInsert]

DummyRemove(t, key) ==
    IF t # None
    THEN LET rr == RootRemove(t[1], key)
         IN  [res |-> rr.res, val |-> rr.val, tree |-> Some(rr.root)]
    ELSE [res |-> "KeyNotFound", val |-> 0, tree |-> t]

\* BTreeSet::max_keys: 2 * Self::B - 1.
max_keys == 2 * B - 1

\* BTreeSet::contains: self.search(key).is_ok(); a panic in search propagates.
DummyContains(t, key) ==
    LET s == DummySearch(t, key)
    IN  IF s.res = "Panic" THEN [res |-> "Panic", val |-> 0]
        ELSE [res |-> IF s.res = "Ok" THEN "true" ELSE "false", val |-> 0]

(***************************************************************************)
(* impl BTreeSet for ReferenceBTreeSet.                                    *)
(***************************************************************************)
RefSearch(s, key) ==
    IF key \in s THEN [res |-> "Ok", val |-> key] ELSE [res |-> "KeyNotFound", val |-> 0]

RefInsert(s, key) ==
    IF key \notin s THEN [res |-> "Ok", set |-> s \cup {key}]
    ELSE [res |-> "KeyAlreadyExists", set |-> s]

RefRemove(s, key) ==
    IF key \in s THEN [res |-> "Ok", val |-> key, set |-> s \ {key}]
    ELSE [res |-> "KeyNotFound", val |-> 0, set |-> s]

RefContains(s, key) ==
    [res |-> IF RefSearch(s, key).res = "Ok" THEN "true" ELSE "false", val |-> 0]

(***************************************************************************)
(* The program: new(), then any sequence of calls.  A panic aborts the     *)
(* program: no call follows it.                                            *)
(***************************************************************************)
Running == lastOp.res # "Panic"

Init ==
    /\ B \in Degrees
    /\ root = None
    /\ oracle = {}
    /\ lastOp = [op |-> "new", key |-> 0, res |-> "Ok", val |-> 0]
    /\ refOp = [res |-> "Ok", val |-> 0]
    /\ inserted = {}
    /\ lastInsert = NoNodeInsert

Search(k) ==
    /\ Running
    /\ LET s == DummySearch(root, k)
       IN  lastOp' = [op |-> "search", key |-> k, res |-> s.res, val |-> s.val]
    /\ refOp' = RefSearch(oracle, k)
    /\ lastInsert' = NoNodeInsert
    /\ UNCHANGED <<B, root, oracle, inserted>>

Contains(k) ==
    /\ Running
    /\ LET c == DummyContains(root, k)
       IN  lastOp' = [op |-> "contains", key |-> k, res |-> c.res, val |-> c.val]
    /\ refOp' = RefContains(oracle, k)
    /\ lastInsert' = NoNodeInsert
    /\ UNCHANGED <<B, root, oracle, inserted>>

\* The state after insert(k) returned i on the tree and o on the oracle.
Inserted(k, i, o) ==
    /\ root' = i.tree
    /\ lastOp' = [op |-> "insert", key |-> k, res |-> i.res, val |-> 0]
    /\ inserted' = IF i.res = "Ok" THEN inserted \cup {k} ELSE inserted
    /\ lastInsert' = i.ir
    /\ oracle' = o.set
    /\ refOp' = [res |-> o.res, val |-> 0]

Insert(k) ==
    /\ Running
    /\ Inserted(k, DummyInsert(root, k), RefInsert(oracle, k))
    /\ UNCHANGED B

Remove(k) ==
    /\ Running
    /\ LET r == DummyRemove(root, k)
           o == RefRemove(oracle, k)
       IN  /\ root' = r.tree
           /\ lastOp' = [op |-> "remove", key |-> k, res |-> r.res, val |-> r.val]
           /\ inserted' = IF r.res = "Ok" THEN inserted \ {k} ELSE inserted
           /\ lastInsert' = NoNodeInsert
           /\ oracle' = o.set
           /\ refOp' = [res |-> o.res, val |-> o.val]
    /\ UNCHANGED B

Next ==
    \E k \in KeySpace :
        \/ Search(k)
        \/ Contains(k)
        \/ Insert(k)
        \/ Remove(k)

Spec == Init /\ [][Next]_vars

(***************************************************************************)
(* What a tree holds, read off its structure (not through search).         *)
(***************************************************************************)
Range(s) == {s[i] : i \in 1..Len(s)}

StrictlyIncreasing(s) == \A i \in 1..(Len(s) - 1) : s[i] < s[i + 1]

\* The node and every node below it.
RECURSIVE NodesOf(_)
NodesOf(node) ==
    {node} \cup UNION {NodesOf(node.children[i]) : i \in 1..Len(node.children)}

\* Every key stored in the node or below it.
RECURSIVE KeysOf(_)
KeysOf(node) ==
    Range(node.keys) \cup UNION {KeysOf(node.children[i]) : i \in 1..Len(node.children)}

\* In-order traversal: children[0], keys[0], children[1], keys[1], ...
RECURSIVE InOrderFrom(_, _)
InOrderFrom(node, i) ==
    IF i > Len(node.keys) /\ i > Len(node.children) THEN <<>>
    ELSE (IF i <= Len(node.children) THEN InOrderFrom(node.children[i], 1) ELSE <<>>)
         \o (IF i <= Len(node.keys) THEN <<node.keys[i]>> ELSE <<>>)
         \o InOrderFrom(node, i + 1)

InOrder(node) == InOrderFrom(node, 1)

\* The depths (root = 0) of the nodes that have no children.
RECURSIVE LeafDepths(_, _)
LeafDepths(node, d) ==
    IF node.is_leaf \/ Len(node.children) = 0 THEN {d}
    ELSE UNION {LeafDepths(node.children[i], d + 1) : i \in 1..Len(node.children)}

\* Number of levels on the leftmost path.
RECURSIVE HeightOf(_)
HeightOf(node) ==
    IF Len(node.children) = 0 THEN 1 ELSE 1 + HeightOf(node.children[1])

HasRoot == root # None
RootNode == root[1].node
TreeNodes == IF HasRoot THEN NodesOf(RootNode) ELSE {}
NonRootNodes == TreeNodes \ (IF HasRoot THEN {RootNode} ELSE {})
TreeKeys == IF HasRoot THEN KeysOf(RootNode) ELSE {}
TreeHeight == IF HasRoot THEN HeightOf(RootNode) ELSE 0
\* The keys contains() reports.
ContainsSet == {k \in KeySpace : DummyContains(root, k).res = "true"}

(***************************************************************************)
(* C1: every key whose insert returned Ok(()) is reported by contains      *)
(* right after that insert and after every later insert: no split and no   *)
(* root promotion loses a key.                                             *)
(***************************************************************************)
C1_InsertedKeysStayContained ==
    \A k \in inserted : DummyContains(root, k).res = "true"

\* A leaf split, an intermediate split and a root promotion have all
\* happened, and the last insert was one of them.
C1_Witness ==
    /\ lastOp.op = "insert" /\ lastOp.res = "Ok"
    /\ TreeHeight = 3
    /\ Len(RootNode.keys) = 1
    /\ Cardinality(inserted) >= 8

(***************************************************************************)
(* C2: remove(k) of a key k present in the tree returns Ok(k); afterwards  *)
(* contains(k) is false and contains(j) is as before for every other j.    *)
(***************************************************************************)
C2_RemovePresentReturnsKey ==
    [][(lastOp'.op = "remove" /\ lastOp'.key \in TreeKeys)
        => /\ lastOp'.res = "Ok"
           /\ lastOp'.val = lastOp'.key
           /\ ContainsSet' = ContainsSet \ {lastOp'.key}]_vars

(***************************************************************************)
(* C3: insert(k) of a key already in the tree, in a leaf or as a           *)
(* separator, at any height, returns Err(KeyAlreadyExists) and leaves the  *)
(* tree as it was.                                                         *)
(***************************************************************************)
C3_DuplicateInsertRejected ==
    [][(lastOp'.op = "insert" /\ lastOp'.key \in TreeKeys)
        => /\ lastOp'.res = "KeyAlreadyExists"
           /\ root' = root]_vars

\* A duplicate of a separator was rejected in a tree three levels high that
\* also holds keys in leaves.
C3_Witness ==
    /\ lastOp.op = "insert" /\ lastOp.res = "KeyAlreadyExists"
    /\ TreeHeight = 3
    /\ \E n \in TreeNodes : ~n.is_leaf /\ lastOp.key \in Range(n.keys)

(***************************************************************************)
(* C4: remove(k) of a key k that is not in the tree returns                *)
(* Err(KeyNotFound) and leaves the tree as it was, on the empty tree and   *)
(* on every tree reached by inserts.                                       *)
(***************************************************************************)
C4_RemoveAbsentNotFound ==
    [][(lastOp'.op = "remove" /\ lastOp'.key \notin TreeKeys)
        => /\ lastOp'.res = "KeyNotFound"
           /\ root' = root]_vars

(***************************************************************************)
(* C5: on the same sequence of calls DummyBTreeSet and ReferenceBTreeSet   *)
(* return the same result for every call, and the tree reports the set     *)
(* the oracle holds.                                                       *)
(***************************************************************************)
C5_AgreesWithOracle ==
    /\ lastOp.res = refOp.res
    /\ lastOp.val = refOp.val
    /\ ContainsSet = oracle

(***************************************************************************)
(* C6: every call of search, contains, insert or remove returns; the only  *)
(* errors are KeyNotFound and KeyAlreadyExists; no call panics.            *)
(***************************************************************************)
C6_NoCallPanics ==
    /\ lastOp.op \in {"search", "remove"} =>
           lastOp.res \in {"Ok", "KeyNotFound"}
    /\ lastOp.op = "insert" => lastOp.res \in {"Ok", "KeyAlreadyExists"}
    /\ lastOp.op = "contains" => lastOp.res \in {"true", "false"}

(***************************************************************************)
(* C7: keys are strictly increasing inside every node; keys[i] of an       *)
(* intermediate node is greater than every key under children[i] and less  *)
(* than every key under children[i+1]; the in-order traversal is strictly  *)
(* increasing.                                                             *)
(***************************************************************************)
SeparatorsOrdered(n) ==
    \A i \in 1..Len(n.keys) :
        /\ i <= Len(n.children) =>
               \A k \in KeysOf(n.children[i]) : k < n.keys[i]
        /\ i + 1 <= Len(n.children) =>
               \A k \in KeysOf(n.children[i + 1]) : k > n.keys[i]

C7_KeysSorted ==
    /\ \A n \in TreeNodes : StrictlyIncreasing(n.keys)
    /\ \A n \in TreeNodes : ~n.is_leaf => SeparatorsOrdered(n)
    /\ HasRoot => StrictlyIncreasing(InOrder(RootNode))

\* An insert has just completed on a three-level tree: separators sit at
\* two levels above the leaves.
C7_Witness ==
    /\ lastOp.op = "insert" /\ lastOp.res = "Ok"
    /\ TreeHeight = 3
    /\ Len(InOrder(RootNode)) >= 8
    /\ \E n \in NonRootNodes : ~n.is_leaf /\ Len(n.keys) >= 1

(***************************************************************************)
(* C8: in every reachable state all leaves are at the same depth.          *)
(***************************************************************************)
C8_LeavesSameDepth ==
    HasRoot => Cardinality(LeafDepths(RootNode, 0)) = 1

\* Leaves at depth 2 under two intermediate nodes, after a root promotion.
C8_Witness ==
    /\ HasRoot
    /\ LeafDepths(RootNode, 0) = {2}
    /\ Cardinality({n \in TreeNodes : n.is_leaf}) >= 4

(***************************************************************************)
(* C9: every non-root node holds between B-1 and 2B-1 keys, the root       *)
(* between 0 and 2B-1.                                                     *)
(***************************************************************************)
C9_KeyCounts ==
    /\ \A n \in NonRootNodes : B - 1 <= Len(n.keys) /\ Len(n.keys) <= 2 * B - 1
    /\ HasRoot => 0 <= Len(RootNode.keys) /\ Len(RootNode.keys) <= 2 * B - 1

\* Both ends are met: a non-root node at B-1 keys beside one at 2B-1 keys.
C9_Witness ==
    /\ \E n \in NonRootNodes : Len(n.keys) = B - 1
    /\ \E n \in NonRootNodes : Len(n.keys) = 2 * B - 1
    /\ \E n \in NonRootNodes : ~n.is_leaf

(***************************************************************************)
(* C10: every intermediate node has exactly keys.len() + 1 children, the   *)
(* two halves of a split and a newly promoted root included.               *)
(***************************************************************************)
C10_ChildCount ==
    \A n \in TreeNodes : ~n.is_leaf => Len(n.children) = Len(n.keys) + 1

\* The insert just split an intermediate node and promoted a new root over
\* the two halves.
C10_Witness ==
    /\ lastOp.op = "insert" /\ lastOp.res = "Ok"
    /\ TreeHeight = 3
    /\ Len(RootNode.keys) = 1 /\ Len(RootNode.children) = 2
    /\ \A i \in 1..2 : Len(RootNode.children[i].children) = B

(***************************************************************************)
(* C11: search(k) returns Err(KeyNotFound) for every key that is not in    *)
(* the tree (every key on a root-less tree, every never-inserted key       *)
(* later); when it returns Ok(r), r = k; contains(k) is                    *)
(* search(k).is_ok().                                                      *)
(***************************************************************************)
C11_SearchResult ==
    /\ lastOp.op = "search" =>
           /\ lastOp.key \notin TreeKeys => lastOp.res = "KeyNotFound"
           /\ lastOp.key \notin inserted => lastOp.res = "KeyNotFound"
           /\ lastOp.res = "Ok" => lastOp.val = lastOp.key
    /\ lastOp.op = "contains" =>
           /\ lastOp.res \in {"true", "false"}
           /\ (lastOp.res = "true") <=> (DummySearch(root, lastOp.key).res = "Ok")
           /\ lastOp.key \notin inserted => lastOp.res = "false"
    /\ ~HasRoot => \A k \in KeySpace : DummySearch(root, k).res = "KeyNotFound"

\* A search missed after descending through two intermediate levels.
C11_Witness ==
    /\ lastOp.op = "search" /\ lastOp.res = "KeyNotFound"
    /\ TreeHeight = 3
    /\ lastOp.key \notin inserted

(***************************************************************************)
(* The splits and absorptions of the last insert.                          *)
(***************************************************************************)
LastTrace == lastInsert.trace
SplitEntries == {LastTrace[i] : i \in {j \in 1..Len(LastTrace) : LastTrace[j].kind = "split"}}
LeafSplitEntries == {e \in SplitEntries : e.before.is_leaf}
IntermediateSplitEntries == {e \in SplitEntries : ~e.before.is_leaf}
AbsorbEntries == {LastTrace[i] : i \in {j \in 1..Len(LastTrace) : LastTrace[j].kind = "absorb"}}

(***************************************************************************)
(* C12 as claimed: when a leaf overflows (more than 2B-1 keys), the split  *)
(* moves the keys at index B and beyond into the new sibling and hoists    *)
(* the key at index B of the overflowing sequence.                         *)
(***************************************************************************)
C12_HoistAtIndexB ==
    \A e \in LeafSplitEntries :
        /\ Len(e.before.keys) > 2 * B - 1
        /\ e.sibling.keys = SubSeq(e.before.keys, B + 1, Len(e.before.keys))
        /\ e.hoist = At(e.before.keys, B)

(***************************************************************************)
(* C12 as amended: when a leaf overflows (it holds 2B keys), the split     *)
(* moves the keys at index B and beyond into the new sibling, hoists the   *)
(* key at index B-1 and leaves the keys at indices 0..B-2 in the leaf.     *)
(***************************************************************************)
C12_HoistAtIndexBMinusOne ==
    \A e \in LeafSplitEntries :
        /\ Len(e.before.keys) = 2 * B
        /\ e.sibling.keys = SubSeq(e.before.keys, B + 1, Len(e.before.keys))
        /\ e.hoist = At(e.before.keys, B - 1)
        /\ e.left.keys = SubSeq(e.before.keys, 1, B - 1)

\* A leaf below the root has just split, with B = 3.
C12_Witness ==
    /\ LeafSplitEntries # {}
    /\ B = 3
    /\ lastInsert.res = "Inserted"

(***************************************************************************)
(* C13 as claimed: an intermediate node that receives a Split from a child *)
(* splits itself only if, with the hoisted key inserted, it holds more     *)
(* than 2B-1 keys; with 2B-1 or fewer keys it reports Inserted.            *)
(***************************************************************************)
C13_SplitsOnKeyOverflow ==
    \A e \in AbsorbEntries :
        /\ e.res = "Split" => Len(e.left.keys) > 2 * B - 1
        /\ Len(e.left.keys) <= 2 * B - 1 => e.res = "Inserted"

(***************************************************************************)
(* C13 as amended: an intermediate node that receives a Split from a child *)
(* splits itself exactly when, with the hoisted key and the sibling        *)
(* inserted, it has more than 2B-1 children, that is when it holds 2B-1    *)
(* keys; with 2B-2 or fewer keys it reports Inserted.                      *)
(***************************************************************************)
C13_SplitsOnChildOverflow ==
    \A e \in AbsorbEntries :
        /\ e.res \in {"Split", "Inserted"}
        /\ e.res = "Split" <=> Len(e.left.children) > 2 * B - 1
        /\ e.res = "Split" <=> Len(e.left.keys) = 2 * B - 1
        /\ Len(e.left.keys) <= 2 * B - 2 <=> e.res = "Inserted"
        /\ Len(e.left.keys) = Len(e.before.keys) + 1

\* An intermediate node took a hoisted key, reached 2B-1 keys and split.
C13_Witness ==
    \E e \in AbsorbEntries :
        /\ e.res = "Split"
        /\ Len(e.left.keys) = 2 * B - 1
        /\ Len(e.left.children) = 2 * B

(***************************************************************************)
(* C14 as claimed: every split, of a leaf or of an intermediate node,      *)
(* leaves exactly B-1 keys in the original node, hoists exactly one key    *)
(* and puts exactly B-1 keys in the new sibling.                           *)
(***************************************************************************)
C14_SplitIsBMinusOneOneBMinusOne ==
    \A e \in SplitEntries :
        /\ Len(e.left.keys) = B - 1
        /\ Len(e.before.keys) = Len(e.left.keys) + 1 + Len(e.sibling.keys)
        /\ Len(e.sibling.keys) = B - 1

(***************************************************************************)
(* C14 as amended: every split leaves exactly B-1 keys in the original     *)
(* node and hoists exactly one key; the new sibling gets exactly B-1 keys  *)
(* when an intermediate node splits and exactly B keys when a leaf splits. *)
(***************************************************************************)
C14_SplitSizes ==
    \A e \in SplitEntries :
        /\ Len(e.left.keys) = B - 1
        /\ Len(e.before.keys) = Len(e.left.keys) + 1 + Len(e.sibling.keys)
        /\ e.hoist \in Range(e.before.keys)
        /\ e.hoist \notin Range(e.left.keys) \cup Range(e.sibling.keys)
        /\ Len(e.sibling.keys) = IF e.before.is_leaf THEN B ELSE B - 1

\* One insert split a leaf and then the intermediate node above it.
C14_Witness ==
    /\ LeafSplitEntries # {}
    /\ IntermediateSplitEntries # {}

(***************************************************************************)
(* C15: an insert changes the height by 0 or +1, never decreases it; on a  *)
(* tree that has a root node the height grows by one exactly when the      *)
(* root node reports a Split, and the new root then holds exactly the      *)
(* hoisted key and exactly two children: the old root, then the sibling.   *)
(* (A root-less tree has height 0 here; its first insert is C17.)          *)
(***************************************************************************)
C15_HeightOnInsert ==
    [][lastOp'.op = "insert" =>
        /\ TreeHeight' - TreeHeight \in {0, 1}
        /\ HasRoot =>
             /\ (TreeHeight' = TreeHeight + 1) <=> (lastInsert'.res = "Split")
             /\ lastInsert'.res = "Split" =>
                  /\ ~RootNode'.is_leaf
                  /\ RootNode'.keys = <<lastInsert'.hoist>>
                  /\ RootNode'.children = <<lastInsert'.node, lastInsert'.sibling>>
                  /\ lastInsert'.node.is_leaf = RootNode.is_leaf
                  /\ KeysOf(lastInsert'.node) \subseteq KeysOf(RootNode) \cup {lastOp'.key}
             /\ lastInsert'.res # "Split" => RootNode' = lastInsert'.node]_vars

\* The root node, an intermediate node, reported a Split and the tree grew
\* from two levels to three.
C15_Witness ==
    /\ lastInsert.res = "Split"
    /\ ~lastInsert.node.is_leaf
    /\ TreeHeight = 3

(***************************************************************************)
(* C16: inserting max_keys() = 2B-1 distinct keys into an empty tree       *)
(* causes no split: the root is a single leaf holding all of them.  The    *)
(* next distinct insert triggers exactly one split, at the root, and       *)
(* gives a root with one key and two leaf children.                        *)
(***************************************************************************)
C16_FirstSplitAfterMaxKeys ==
    [][(lastOp'.op = "insert" /\ lastOp'.res = "Ok") =>
        /\ max_keys = 2 * B - 1
        /\ Cardinality(inserted') <= max_keys =>
             /\ lastInsert'.trace = <<>>
             /\ lastInsert'.res \in {"None", "Inserted"}
             /\ RootNode'.is_leaf /\ RootNode'.children = <<>>
             /\ Len(RootNode'.keys) = Cardinality(inserted')
             /\ Range(RootNode'.keys) = inserted'
        /\ Cardinality(inserted') = max_keys + 1 =>
             /\ Len(lastInsert'.trace) = 1
             /\ lastInsert'.trace[1].kind = "split"
             /\ lastInsert'.trace[1].before.is_leaf
             /\ Range(lastInsert'.trace[1].before.keys) = inserted'
             /\ lastInsert'.res = "Split"
             /\ ~RootNode'.is_leaf
             /\ Len(RootNode'.keys) = 1
             /\ Len(RootNode'.children) = 2
             /\ \A i \in 1..2 : RootNode'.children[i].is_leaf
             /\ KeysOf(RootNode') = inserted']_vars

\* With B = 3 the sixth distinct key has just split the root leaf.
C16_Witness ==
    /\ B = 3
    /\ Cardinality(inserted) = max_keys + 1
    /\ lastOp.op = "insert" /\ lastOp.res = "Ok"
    /\ lastInsert.res = "Split"

(***************************************************************************)
(* C17: insert(k) on a tree without a root returns Ok(()) and creates a    *)
(* root that is a leaf holding exactly the key k and no children.          *)
(***************************************************************************)
C17_FirstInsertMakesLeafRoot ==
    [][(lastOp'.op = "insert" /\ ~HasRoot) =>
        /\ lastOp'.res = "Ok"
        /\ HasRoot'
        /\ RootNode'.is_leaf
        /\ RootNode'.keys = <<lastOp'.key>>
        /\ RootNode'.children = <<>>
        /\ lastInsert'.res = "None"]_vars

\* The first insert has just run: one leaf, one key.
C17_Witness ==
    /\ lastOp.op = "insert" /\ lastOp.res = "Ok"
    /\ lastInsert.res = "None"
    /\ HasRoot /\ RootNode.is_leaf
    /\ RootNode.keys = <<lastOp.key>>

(***************************************************************************)
(* C18: a remove that leaves an intermediate root with zero keys replaces  *)
(* the root by its single remaining child, and the height decreases by     *)
(* exactly one; no completed remove leaves an intermediate root with zero  *)
(* keys.                                                                   *)
(*                                                                         *)
(* CollapsingRemove(k) picks trees on which removing k must empty the      *)
(* root: three levels, a root with one key over two intermediate nodes at  *)
(* the minimum B-1 keys, and k in the leftmost leaf, which like its right  *)
(* sibling holds the minimum B-1 keys.  The leaf becomes deficient and     *)
(* merges, its parent becomes deficient and merges with its sibling, and   *)
(* the root's only key is consumed.                                        *)
(***************************************************************************)
CollapsingRemove(k) ==
    /\ HasRoot
    /\ TreeHeight = 3
    /\ Len(RootNode.keys) = 1 /\ Len(RootNode.children) = 2
    /\ \A i \in 1..2 : Len(RootNode.children[i].keys) = B - 1
    /\ \A i \in 1..2 : Len(RootNode.children[1].children[i].keys) = B - 1
    /\ k \in Range(RootNode.children[1].children[1].keys)

C18_RootCollapse ==
    [][lastOp'.op = "remove" =>
        /\ CollapsingRemove(lastOp'.key) =>
             /\ lastOp'.res = "Ok"
             /\ TreeHeight' = TreeHeight - 1
        /\ ~(HasRoot' /\ ~RootNode'.is_leaf /\ Len(RootNode'.keys) = 0)]_vars

(***************************************************************************)
(* C19: in every state reached by inserts, search and insert do not        *)
(* panic: a node with is_leaf = false has keys.len() + 1 >= 2 children,    *)
(* so children[idx] with a binary-search insertion index is in range, and  *)
(* split's keys.pop_back().unwrap() finds a key.                           *)
(***************************************************************************)
C19_SearchInsertNeverPanic ==
    /\ lastOp.op \in {"search", "contains", "insert"} => lastOp.res # "Panic"
    /\ \A k \in KeySpace :
           /\ DummySearch(root, k).res # "Panic"
           /\ DummyInsert(root, k).res # "Panic"
    /\ \A n \in TreeNodes :
           ~n.is_leaf =>
               /\ Len(n.children) >= 2
               /\ \A k \in KeySpace :
                      ~BinarySearch(n.keys, k).ok =>
                          BinarySearch(n.keys, k).idx < Len(n.children)
    /\ \A e \in SplitEntries :
           /\ Len(e.before.keys) >= B
           /\ e.hoist \in Range(e.before.keys)

\* An insert went down two intermediate levels, split a leaf and an
\* intermediate node, and returned Ok.
C19_Witness ==
    /\ lastOp.op = "insert" /\ lastOp.res = "Ok"
    /\ Cardinality(SplitEntries) = 2
    /\ AbsorbEntries # {}
    /\ TreeHeight = 3

(***************************************************************************)
(* C20: after every insert every intermediate node, the root included,     *)
(* has at most 2B-1 children and so at most 2B-2 keys: it is split as      *)
(* soon as it has more than 2B-1 children.  Only leaves hold 2B-1 keys.    *)
(***************************************************************************)
C20_IntermediateBelowFull ==
    \A n \in TreeNodes :
        /\ ~n.is_leaf => Len(n.children) <= 2 * B - 1 /\ Len(n.keys) <= 2 * B - 2
        /\ Len(n.keys) = 2 * B - 1 => n.is_leaf

\* An intermediate node at its limit of 2B-1 children beside a leaf holding
\* the full 2B-1 keys.
C20_Witness ==
    /\ \E n \in TreeNodes : ~n.is_leaf /\ Len(n.children) = 2 * B - 1
                            /\ Len(n.keys) = 2 * B - 2
    /\ \E n \in TreeNodes : n.is_leaf /\ Len(n.keys) = 2 * B - 1
    /\ lastOp.op = "insert"

(***************************************************************************)
(* C21: the truncating constructors never drop anything.  At every call    *)
(* of Node::leaf and Node::intermediate made by insert, split or root      *)
(* promotion the key iterator yields at most MAX_KEYS = 2B-1 keys and the  *)
(* child iterator at most MAX_CHILDREN = B children, so every split        *)
(* conserves keys and children: keys before = left keys, hoisted key,      *)
(* sibling keys; children before = left children, sibling children.  The   *)
(* promoted root keeps its one key and its two children, and the first     *)
(* leaf its one key.                                                       *)
(***************************************************************************)
C21_ConstructorsDropNothing ==
    /\ \A e \in SplitEntries :
           /\ Len(e.before.keys) - B <= 2 * B - 1
           /\ ~e.before.is_leaf => Len(e.before.children) - B <= B
           /\ e.before.keys = e.left.keys \o <<e.hoist>> \o e.sibling.keys
           /\ e.before.children = e.left.children \o e.sibling.children
    /\ lastInsert.res = "Split" =>
           /\ Len(<<lastInsert.hoist>>) <= 2 * B - 1
           /\ Len(<<lastInsert.node, lastInsert.sibling>>) <= B
           /\ RootNode.keys = <<lastInsert.hoist>>
           /\ RootNode.children = <<lastInsert.node, lastInsert.sibling>>
    /\ (lastOp.op = "insert" /\ lastOp.res = "Ok" /\ Cardinality(inserted) = 1) =>
           /\ Len(<<lastOp.key>>) <= 2 * B - 1
           /\ RootNode.keys = <<lastOp.key>>

\* With B = 2 an intermediate root split and was promoted: the sibling was
\* built from exactly B children (the B split off the 2B) and the new root
\* from exactly B = 2 children.
C21_Witness ==
    /\ B = 2
    /\ lastInsert.res = "Split"
    /\ \E e \in IntermediateSplitEntries :
           /\ Len(e.before.children) - B = B
           /\ e.sibling = lastInsert.sibling
    /\ Len(RootNode.children) = B

====
